---------------------------- MODULE Spec2Model ----------------------------
(***************************************************************************)
(* The SMA scoring engine: the quantitative pipeline of                    *)
(* scripts/scoring_engine.py (validate_weights, calculate_scores,          *)
(* compute_metric_score, calculate_composite_score) and the qualitative    *)
(* scorer of scripts/qualitative_scoring_engine.py (parse_tenure,          *)
(* score_attribute, calculate_final_score).                                *)
(*                                                                         *)
(* Numbers.  The program computes in binary floating point; the model      *)
(* computes the same expressions in exact rational arithmetic.  A rational *)
(* is a pair <<p, q>> with q > 0 in lowest terms, so equal numbers are     *)
(* equal values.  A cell of a data frame is <<>> when the value is missing *)
(* (NaN) and <<v>> when it is present.                                     *)
(***************************************************************************)
EXTENDS Integers, Sequences, FiniteSets, TLC

VARIABLES
    pc,            \* the stage the running script has reached
    metrics_info,  \* the scoring configuration handed to the quantitative stages
    df,            \* quantitative input frame: a sequence of rows, row = [column -> cell]
    total_weight,  \* the value validate_weights returned
    scores,        \* the "<metric>_score" columns: row index -> [metric -> rational]
    quant_score,   \* the "Quantitative Score" column: row index -> rational
    quant_tier,    \* the "Tier" column apply_tier_logic adds: row index -> label
    qual_df,       \* qualitative input frame: a sequence of rows, row = [column -> value]
    raw_scores,    \* "<attribute> Raw Score" columns: row index -> [attribute -> integer]
    norm_scores,   \* normalized_scores: row index -> [weight column -> rational]
    total_score,   \* "Total Score" column
    average_score, \* "Average Score" column
    qual_score,    \* "Qualitative Score" column
    qual_err,      \* "none", or the exception calculate_final_score raised
    df_quant,      \* combine_scores: the quantitative table, Fund Name -> [quant, tier]
    df_qual,       \* combine_scores: the qualitative table, Fund Name -> [qual]
    df_merged,     \* combine_scores: the merged table, Fund Name -> record of its columns
    merge_warning, \* the count the warning of merge_scores carries, 0 when none is logged
    df_combined,   \* the table read from outputs/combined_scores.csv: a sequence of rows
    thresholds,    \* the tier cutoffs: [tier1_cutoff, tier2_cutoff]
    df_with_tiers, \* the table with its tier column: a sequence of rows
    tier_pcts,     \* app: the slider values <<tier1_pct, tier2_pct>>
    new_fund_df,   \* app: st.session_state.new_fund_df, [is_none, rows]
    uploaded_quant, \* app: the quantitative frame of the last "Score and Compare" click
    click_result,  \* app: how the last click ended: "none", "scored" or "error"
    files,         \* main.py: the CSV files of outputs/, each a sequence of rows
    run,           \* main.py: the number of pipeline runs started
    first_outputs, \* main.py: the files of outputs/ as the first run left them
    tenure_in,     \* a cell of the "Manager Tenure (Years)" column
    tenure_parsed, \* what parse_tenure returned for it
    tenure_norm    \* its "Manager Tenure Score"

vars == <<pc, metrics_info, df, total_weight, scores, quant_score, quant_tier,
          qual_df, raw_scores, norm_scores, total_score, average_score,
          qual_score, qual_err, df_quant, df_qual, df_merged, merge_warning,
          df_combined, thresholds, df_with_tiers, tier_pcts, new_fund_df,
          uploaded_quant, click_result, files, run, first_outputs,
          tenure_in, tenure_parsed, tenure_norm>>

quant_vars == <<metrics_info, df, total_weight, scores, quant_score, quant_tier>>
qual_vars == <<qual_df, raw_scores, norm_scores, total_score, average_score,
               qual_score, qual_err>>
comb_vars == <<df_quant, df_qual, df_merged, merge_warning>>

tier_vars == <<df_combined, thresholds, df_with_tiers>>
app_vars == <<tier_pcts, new_fund_df, uploaded_quant, click_result>>
pipe_vars == <<files, run, first_outputs>>
tenure_vars == <<tenure_in, tenure_parsed, tenure_norm>>

\* the variables of the scripts other than the two scoring engines
ext_vars == <<comb_vars, tier_vars, app_vars, pipe_vars, tenure_vars>>

CombIdle ==
    /\ df_quant = <<>>
    /\ df_qual = <<>>
    /\ df_merged = <<>>
    /\ merge_warning = 0

TierIdle ==
    /\ df_combined = <<>>
    /\ thresholds = <<>>
    /\ df_with_tiers = <<>>

AppIdle ==
    /\ tier_pcts = <<>>
    /\ new_fund_df = [is_none |-> TRUE, rows |-> <<>>]
    /\ uploaded_quant = <<>>
    /\ click_result = "none"

NoFiles == [sma_scored |-> <<>>, qualitative_scored |-> <<>>, combined_scores |-> <<>>]

PipeIdle ==
    /\ files = NoFiles
    /\ run = 0
    /\ first_outputs = NoFiles

TenureIdle ==
    /\ tenure_in = <<>>
    /\ tenure_parsed = <<>>
    /\ tenure_norm = <<>>

ExtIdle == CombIdle /\ TierIdle /\ AppIdle /\ PipeIdle /\ TenureIdle

-----------------------------------------------------------------------------
(* Bounds of the model *)

\* the largest quantitative population
MaxFunds == 3
\* the largest qualitative population
MaxQualFunds == 1
\* the number of fund names the tables handed to combine_scores draw from
MaxCombFunds == 4
\* the largest of the small populations handed to tier_explainer
MaxReportFunds == 3
\* the largest population the dashboard loads from outputs/combined_scores.csv
MaxAppFunds == 2
\* the largest population of the data files main.py runs on
MaxPipeFunds == 2
\* the number of times main.py is run on the same data files
MaxRuns == 2
\* the longest tenure text handed to parse_tenure
MaxTenureLen == 4

\* the raw metric values a fund can report (only their order matters to a rank)
RawValues == {1, 2, 3}

-----------------------------------------------------------------------------
(* Exact rational arithmetic *)

RECURSIVE GCD(_, _)
GCD(a, b) == IF b = 0 THEN a ELSE GCD(b, a % b)

Abs(x) == IF x < 0 THEN -x ELSE x

\* p/q in lowest terms with a positive denominator (q # 0)
Rat(p, q) ==
    LET g == GCD(Abs(p), Abs(q))
        s == IF q < 0 THEN -1 ELSE 1
    IN  <<(s * p) \div g, (s * q) \div g>>

RInt(n) == <<n, 1>>
RAdd(a, b) == Rat(a[1] * b[2] + b[1] * a[2], a[2] * b[2])
RSub(a, b) == Rat(a[1] * b[2] - b[1] * a[2], a[2] * b[2])
RMul(a, b) == Rat(a[1] * b[1], a[2] * b[2])
RDiv(a, b) == Rat(a[1] * b[2], a[2] * b[1])
RLe(a, b) == a[1] * b[2] <= b[1] * a[2]
RLt(a, b) == a[1] * b[2] < b[1] * a[2]

\* the sum of f[x] over the finite set S
RECURSIVE RSum(_, _)
RSum(f, S) ==
    IF S = {} THEN RInt(0)
    ELSE LET x == CHOOSE y \in S : TRUE
         IN  RAdd(f[x], RSum(f, S \ {x}))


-----------------------------------------------------------------------------
(* scripts/scoring_engine.py: the quantitative pipeline *)

\* get_scoring_config, restricted to one higher-is-better and one
\* lower-is-better row of its thirteen (weights and penalties as configured)
get_scoring_config ==
    [m \in {"Alpha (Since Inception)", "Max Drawdown (3Y)"} |->
        IF m = "Alpha (Since Inception)"
        THEN [weight |-> Rat(5, 100), penalty |-> Rat(15, 100), direction |-> "higher"]
        ELSE [weight |-> Rat(10, 100), penalty |-> Rat(20, 100), direction |-> "lower"]]

\* the configurations the quantitative stages are run with
ScoringConfigs == {get_scoring_config}

\* a variant that takes the weights to sum to 1
validate_weights_assume_unit(mi) == RInt(1)

\* total_weight = sum(cfg["weight"] for cfg in metrics_info.values())
validate_weights(mi) == RSum([m \in DOMAIN mi |-> mi[m].weight], DOMAIN mi)

\* df.columns
Columns(frame) == DOMAIN frame[1]

\* a variant that forgets the penalty of an absent column
missing_column_score_unpenalized(cfg) == Rat(1, 2)

\* pd.Series(0.5 * (1 - cfg["penalty"]), index=df.index) for an absent column
missing_column_score(cfg) == RMul(Rat(1, 2), RSub(RInt(1), cfg.penalty))

\* a variant that gives a missing value the plain neutral score
penalty_score_unpenalized(cfg) == Rat(1, 2)

\* penalty_score = 0.5 * (1 - cfg["penalty"]) for a missing value
penalty_score(cfg) == RMul(Rat(1, 2), RSub(RInt(1), cfg.penalty))

\* valid_mask = df[metric].notna(), as the set of row indices it selects
valid_mask(frame, metric) == {i \in DOMAIN frame : frame[i][metric] # <<>>}

\* a variant that divides the rank by the number of rows, missing ones included
rank_count_all_rows(frame, valid) == Len(frame)

\* the count Series.rank(pct=True) divides by: the values that are ranked
rank_count(frame, valid) == Cardinality(valid)

\* a variant that ranks ties by their lowest rank (method="min")
rank_pct_method_min(frame, metric, valid, i) ==
    LET v(j) == frame[j][metric][1]
        less == Cardinality({j \in valid : v(j) < v(i)})
    IN  Rat(less + 1, Cardinality(valid))

\* df.loc[valid_mask, metric].rank(pct=True) at row i: the average of the
\* ranks the values equal to row i's occupy, over the number of ranked values
rank_pct(frame, metric, valid, i) ==
    LET v(j) == frame[j][metric][1]
        less == Cardinality({j \in valid : v(j) < v(i)})
        same == Cardinality({j \in valid : v(j) = v(i)})
    IN  Rat(2 * less + same + 1, 2 * rank_count(frame, valid))

\* a variant that never inverts the rank
directed_score_no_invert(cfg, ranked) == ranked

\* a variant that inverts the rank for direction "higher" instead of "lower"
directed_score_invert_higher(cfg, ranked) ==
    IF cfg.direction = "higher" THEN RSub(RInt(1), ranked) ELSE ranked

\* scores = 1 - ranked_scores for direction "lower", ranked_scores otherwise
directed_score(cfg, ranked) ==
    IF cfg.direction = "lower" THEN RSub(RInt(1), ranked) ELSE ranked

\* compute_metric_score: the score Series of one metric, row index -> score
compute_metric_score(frame, metric, cfg) ==
    IF metric \notin Columns(frame)
    THEN [i \in DOMAIN frame |-> missing_column_score(cfg)]
    ELSE LET valid == valid_mask(frame, metric)
         IN  [i \in DOMAIN frame |->
                 IF i \in valid
                 THEN directed_score(cfg, rank_pct(frame, metric, valid, i))
                 ELSE penalty_score(cfg)]

\* calculate_scores: one "<metric>_score" column per configured metric
calculate_scores(frame, mi) ==
    [i \in DOMAIN frame |->
        [m \in DOMAIN mi |-> compute_metric_score(frame, m, mi[m])[i]]]

\* score_cols = the configured metrics whose score column is in the frame
score_cols(sc, mi) == {m \in DOMAIN mi : m \in DOMAIN sc[1]}

\* a variant that does not divide by total_weight
calculate_composite_score_unnormalized(sc, mi, tw) ==
    [i \in DOMAIN sc |->
        RMul(RSum([m \in score_cols(sc, mi) |-> RMul(sc[i][m], mi[m].weight)],
                  score_cols(sc, mi)),
             RInt(100))]

\* (df[score_cols] @ weights / total_weight) * 100
calculate_composite_score(sc, mi, tw) ==
    [i \in DOMAIN sc |->
        RMul(RDiv(RSum([m \in score_cols(sc, mi) |-> RMul(sc[i][m], mi[m].weight)],
                       score_cols(sc, mi)),
                  tw),
             RInt(100))]

\* assign_tier: the fixed score-range tier of a Quantitative Score
assign_tier(score) ==
    IF RLe(RInt(85), score) THEN "Top Pick"
    ELSE IF RLe(RInt(70), score) THEN "Consider"
    ELSE IF RLe(RInt(50), score) THEN "Watch List"
    ELSE "Do Not Recommend"

\* df["Tier"] = df["Quantitative Score"].apply(assign_tier)
apply_tier_logic(qs) == [i \in DOMAIN qs |-> assign_tier(qs[i])]

\* the input frames: 1..MaxFunds rows over any subset of the metric columns
QuantFrames(mi) ==
    UNION {[1..n -> [cols -> {<<>>} \cup {<<v>> : v \in RawValues}]] :
              n \in 1..MaxFunds, cols \in SUBSET (DOMAIN mi)}

QualIdle ==
    /\ qual_df = <<>>
    /\ raw_scores = <<>>
    /\ norm_scores = <<>>
    /\ total_score = <<>>
    /\ average_score = <<>>
    /\ qual_score = <<>>
    /\ qual_err = "none"

\* a configuration of two metrics, Sharpe (higher is better, weight 0.6) and
\* Drawdown (lower is better, weight 0.4); the penalty is read for missing
\* values only
SharpeDrawdownConfig ==
    [m \in {"Sharpe", "Drawdown"} |->
        IF m = "Sharpe"
        THEN [weight |-> Rat(6, 10), direction |-> "higher"]
        ELSE [weight |-> Rat(4, 10), direction |-> "lower"]]

\* three funds with Sharpe 1.0, 2.0, 3.0 and Drawdown -0.3, -0.2, -0.1; the
\* Drawdown cells are in tenths, which rank as the values do
SharpeDrawdownFrame ==
    [i \in 1..3 |->
        [m \in {"Sharpe", "Drawdown"} |-> IF m = "Sharpe" THEN <<i>> ELSE <<i - 4>>]]

\* main() of scoring_engine.py before its first stage
Init ==
    /\ pc = "start"
    /\ \/ metrics_info \in ScoringConfigs /\ df \in QuantFrames(metrics_info)
       \/ metrics_info = SharpeDrawdownConfig /\ df = SharpeDrawdownFrame
    /\ total_weight = <<>>
    /\ scores = <<>>
    /\ quant_score = <<>>
    /\ quant_tier = <<>>
    /\ QualIdle
    /\ ExtIdle

\* total_weight = validate_weights(metrics_info)
ValidateWeights ==
    /\ pc = "start"
    /\ total_weight' = validate_weights(metrics_info)
    /\ pc' = "validated"
    /\ UNCHANGED <<metrics_info, df, scores, quant_score, quant_tier, qual_vars, ext_vars>>

\* df_scored = calculate_scores(df, metrics_info)
CalculateScores ==
    /\ pc = "validated"
    /\ scores' = calculate_scores(df, metrics_info)
    /\ pc' = "scored"
    /\ UNCHANGED <<metrics_info, df, total_weight, quant_score, quant_tier, qual_vars, ext_vars>>

\* df_composite = calculate_composite_score(df_scored, metrics_info, total_weight)
CalculateCompositeScore ==
    /\ pc = "scored"
    /\ quant_score' = calculate_composite_score(scores, metrics_info, total_weight)
    /\ pc' = "composite"
    /\ UNCHANGED <<metrics_info, df, total_weight, scores, quant_tier, qual_vars, ext_vars>>

\* df_tiered = apply_tier_logic(df_composite)
ApplyTierLogic ==
    /\ pc = "composite"
    /\ quant_tier' = apply_tier_logic(quant_score)
    /\ pc' = "tiered"
    /\ UNCHANGED <<metrics_info, df, total_weight, scores, quant_score, qual_vars, ext_vars>>

Next ==
    \/ ValidateWeights
    \/ CalculateScores
    \/ CalculateCompositeScore
    \/ ApplyTierLogic

Spec == Init /\ [][Next]_vars


-----------------------------------------------------------------------------
(* scripts/qualitative_scoring_engine.py: the qualitative scorer *)

\* get_qualitative_config: the label tables and the attribute weights
get_qualitative_config ==
    [mappings |->
        [a \in {"Team Depth", "Transparency & Reporting", "Consistency of Process"} |->
            CASE a = "Team Depth" ->
                    ("Large" :> 4) @@ ("Medium-High" :> 3) @@ ("Medium" :> 2) @@ ("Small" :> 1)
              [] a = "Transparency & Reporting" ->
                    ("Very High" :> 4) @@ ("High" :> 3) @@ ("Medium-High" :> 2)
                        @@ ("Medium" :> 1) @@ ("Low" :> 0)
              [] a = "Consistency of Process" ->
                    ("Very Strong" :> 4) @@ ("Strong" :> 3) @@ ("Moderate" :> 2)
                        @@ ("Still developing" :> 1) @@ ("Too early to judge" :> 0)
                        @@ ("Developing" :> 1) @@ ("Still forming" :> 1)],
     weights |->
        ("Manager Tenure Score" :> Rat(20, 100))
            @@ ("Team Depth Score" :> Rat(25, 100))
            @@ ("Transparency & Reporting Score" :> Rat(20, 100))
            @@ ("Consistency of Process Score" :> Rat(35, 100))]

\* the column df["Manager Tenure (Years)"]
TenureColumn == "Manager Tenure (Years)"

\* f"{attribute} Raw Score" is kept under the attribute's name;
\* norm_col_name = f"{attribute} Score"
norm_col_name(attribute) ==
    CASE attribute = "Team Depth" -> "Team Depth Score"
      [] attribute = "Transparency & Reporting" -> "Transparency & Reporting Score"
      [] attribute = "Consistency of Process" -> "Consistency of Process Score"

\* A tenure cell is [isstr, chars]: a str of single characters, or a value
\* that is not a str (NaN, or a number of a numeric column).
Digits == {"0", "1", "2", "3", "4", "5", "6", "7", "8", "9"}

DigitValue(c) ==
    CASE c = "0" -> 0 [] c = "1" -> 1 [] c = "2" -> 2 [] c = "3" -> 3 [] c = "4" -> 4
      [] c = "5" -> 5 [] c = "6" -> 6 [] c = "7" -> 7 [] c = "8" -> 8 [] c = "9" -> 9

\* the last index of the run of digits of s that starts at i (i - 1 when there is none)
RECURSIVE DigitRunEnd(_, _)
DigitRunEnd(s, i) ==
    IF i <= Len(s) /\ s[i] \in Digits THEN DigitRunEnd(s, i + 1) ELSE i - 1

\* the last index of the match of \d+\.?\d* that starts at the digit s[i]
MatchEnd(s, i) ==
    LET e == DigitRunEnd(s, i)
    IN  IF e < Len(s) /\ s[e + 1] = "." THEN DigitRunEnd(s, e + 2) ELSE e

\* re.findall(r'\d+\.?\d*', s) from index i on: the non-overlapping matches, left to right
RECURSIVE FindAll(_, _)
FindAll(s, i) ==
    IF i > Len(s) THEN <<>>
    ELSE IF s[i] \in Digits
         THEN <<SubSeq(s, i, MatchEnd(s, i))>> \o FindAll(s, MatchEnd(s, i) + 1)
         ELSE FindAll(s, i + 1)

RECURSIVE Pow10(_)
Pow10(n) == IF n = 0 THEN 1 ELSE 10 * Pow10(n - 1)

\* the natural number a run of digits writes
RECURSIVE DigitsValue(_)
DigitsValue(ds) ==
    IF ds = <<>> THEN 0
    ELSE 10 * DigitsValue(SubSeq(ds, 1, Len(ds) - 1)) + DigitValue(ds[Len(ds)])

\* float(n) of a match "ddd", "ddd." or "ddd.ddd"
ToFloat(n) ==
    LET e == DigitRunEnd(n, 1)
        frac == SubSeq(n, e + 2, Len(n))
    IN  RAdd(RInt(DigitsValue(SubSeq(n, 1, e))), Rat(DigitsValue(frac), Pow10(Len(frac))))

RECURSIVE SeqSum(_)
SeqSum(q) == IF q = <<>> THEN RInt(0) ELSE RAdd(q[1], SeqSum(Tail(q)))

\* a variant that takes the first number found, the lower bound of a range
parse_tenure_first_number(tenure_str) ==
    IF ~tenure_str.isstr THEN RInt(0)
    ELSE LET found == FindAll(tenure_str.chars, 1)
         IN  IF found # <<>> THEN ToFloat(found[1]) ELSE RInt(0)

\* parse_tenure: the mean of the numbers found in a str, 0.0 otherwise
parse_tenure(tenure_str) ==
    IF ~tenure_str.isstr THEN RInt(0)
    ELSE LET found == FindAll(tenure_str.chars, 1)
             numbers == [k \in DOMAIN found |-> ToFloat(found[k])]
         IN  IF numbers # <<>>
             THEN RDiv(SeqSum(numbers), RInt(Len(numbers)))
             ELSE RInt(0)

\* the missing label (NaN) of a categorical column
NaNLabel == "nan"

\* a variant that scores an unmapped label as the lowest value of the table
score_attribute_min_fallback(label, mapping) ==
    IF label \in DOMAIN mapping THEN mapping[label]
    ELSE CHOOSE v \in {mapping[k] : k \in DOMAIN mapping} :
             \A k \in DOMAIN mapping : v <= mapping[k]

\* score_attribute, for one cell: series.map(mapping).fillna(0).astype(int)
score_attribute(label, mapping) ==
    IF label \in DOMAIN mapping THEN mapping[label] ELSE 0

\* a variant that normalizes by the number of labels of the table
max_possible_score_len(mapping) == Cardinality(DOMAIN mapping)

\* max_possible_score = max(mapping.values())
max_possible_score(mapping) ==
    CHOOSE v \in {mapping[k] : k \in DOMAIN mapping} :
        \A k \in DOMAIN mapping : mapping[k] <= v

\* Series.clip(0, 1)
clip01(x) == IF RLt(x, RInt(0)) THEN RInt(0) ELSE IF RLt(RInt(1), x) THEN RInt(1) ELSE x

\* the fixed cap of the tenure score, in years
TenureCap == 20

\* (tenure_scores / 20).clip(0, 1)
tenure_score(cell) == clip01(RDiv(parse_tenure(cell), RInt(TenureCap)))

\* the columns calculate_final_score reads with df[...]
required_columns(config) == DOMAIN config.mappings \cup {TenureColumn}

\* the raw score columns of one row
raw_row(row, config) ==
    [a \in DOMAIN config.mappings |-> score_attribute(row[a], config.mappings[a])]

\* the normalized_scores columns of one row that carry a weight
norm_row(row, config) ==
    LET raw == raw_row(row, config)
        attr_of(col) == CHOOSE a \in DOMAIN config.mappings : norm_col_name(a) = col
    IN  [col \in {"Manager Tenure Score"}
                    \cup {norm_col_name(a) : a \in DOMAIN config.mappings} |->
            IF col = "Manager Tenure Score"
            THEN tenure_score(row[TenureColumn])
            ELSE IF max_possible_score(config.mappings[attr_of(col)]) > 0
                 THEN Rat(raw[attr_of(col)], max_possible_score(config.mappings[attr_of(col)]))
                 ELSE RInt(0)]

\* total_weight = sum(weights.values())
qual_total_weight(weights) == RSum(weights, DOMAIN weights)

\* the "Qualitative Score" of one row from its normalized scores
weighted_qual_score(norm, weights) ==
    LET used == {col \in DOMAIN weights : col \in DOMAIN norm}
        weighted_score == RSum([col \in used |-> RMul(norm[col], weights[col])], used)
    IN  IF RLt(RInt(0), qual_total_weight(weights))
        THEN RMul(RDiv(weighted_score, qual_total_weight(weights)), RInt(100))
        ELSE RInt(0)

\* the labels the model draws for each categorical column: keys of its table,
\* a label of no table, and the missing label
LabelSamples(a) ==
    CASE a = "Team Depth" -> {"Large", "Medium", "Small", "VeryHigh", NaNLabel}
      [] a = "Transparency & Reporting" -> {"Very High", "Low", "VeryHigh", NaNLabel}
      [] a = "Consistency of Process" -> {"Very Strong", "Still forming", "VeryHigh", NaNLabel}

\* the tenure cells the model draws: "5-10", "25+", "<5", "new", and NaN
TenureSamples ==
    {[isstr |-> TRUE, chars |-> <<"5", "-", "1", "0">>],
     [isstr |-> TRUE, chars |-> <<"2", "5", "+">>],
     [isstr |-> TRUE, chars |-> <<"<", "5">>],
     [isstr |-> TRUE, chars |-> <<"n", "e", "w">>],
     [isstr |-> FALSE, chars |-> <<>>]}

QualColumns == DOMAIN get_qualitative_config.mappings \cup {TenureColumn}

\* the rows over the columns cols
QualRows(cols) ==
    {[c \in cols |-> IF c = TenureColumn THEN t ELSE l[c]] :
        t \in TenureSamples,
        l \in {f \in [DOMAIN get_qualitative_config.mappings ->
                        UNION {LabelSamples(a) : a \in DOMAIN get_qualitative_config.mappings}] :
                  \A a \in DOMAIN f : f[a] \in LabelSamples(a)}}

\* the input frames: 1..MaxQualFunds rows ("Fund Name" is the row index) over
\* any subset of the attribute columns
QualFrames ==
    UNION {[1..n -> QualRows(cols)] : n \in 1..MaxQualFunds, cols \in SUBSET QualColumns}

QuantIdle ==
    /\ metrics_info = get_scoring_config
    /\ df = <<>>
    /\ total_weight = <<>>
    /\ scores = <<>>
    /\ quant_score = <<>>
    /\ quant_tier = <<>>

\* main() of qualitative_scoring_engine.py after load_and_clean_data
InitQual ==
    /\ pc = "qual_start"
    /\ qual_df \in QualFrames
    /\ raw_scores = <<>>
    /\ norm_scores = <<>>
    /\ total_score = <<>>
    /\ average_score = <<>>
    /\ qual_score = <<>>
    /\ qual_err = "none"
    /\ QuantIdle
    /\ ExtIdle

\* df_scored = calculate_final_score(df, config): df[attribute] and
\* df["Manager Tenure (Years)"] raise KeyError when the column is absent
CalculateFinalScore ==
    /\ pc = "qual_start"
    /\ LET config == get_qualitative_config
           raw == [i \in DOMAIN qual_df |-> raw_row(qual_df[i], config)]
           norm == [i \in DOMAIN qual_df |-> norm_row(qual_df[i], config)]
           attrs == DOMAIN config.mappings
       IN  IF required_columns(config) \subseteq Columns(qual_df)
           THEN /\ raw_scores' = raw
                /\ total_score' =
                      [i \in DOMAIN qual_df |-> RSum([a \in attrs |-> RInt(raw[i][a])], attrs)]
                /\ average_score' =
                      [i \in DOMAIN qual_df |->
                          RDiv(RSum([a \in attrs |-> RInt(raw[i][a])], attrs),
                               RInt(Cardinality(attrs)))]
                /\ norm_scores' = norm
                /\ qual_score' =
                      [i \in DOMAIN qual_df |-> weighted_qual_score(norm[i], config.weights)]
                /\ qual_err' = "none"
                /\ pc' = "qual_done"
           ELSE /\ qual_err' = "KeyError"
                /\ pc' = "qual_failed"
                /\ UNCHANGED <<raw_scores, total_score, average_score, norm_scores, qual_score>>
    /\ UNCHANGED <<qual_df, quant_vars, ext_vars>>

NextQual == CalculateFinalScore

SpecQual == InitQual /\ [][NextQual]_vars

-----------------------------------------------------------------------------
(* scripts/combine_scores.py: merge, combined score, quadrant.  A table is a  *)
(* function from "Fund Name" (unique in a table) to the record of its other   *)
(* columns; the order of the rows is not modelled.                            *)

\* get_combination_config
get_combination_config ==
    [quantitative_weight |-> Rat(6, 10), qualitative_weight |-> Rat(4, 10)]

\* the k-th smallest (k = 1 is the smallest) of the values col[x], x in DOMAIN col
KthSmallest(col, k) ==
    LET vals == {col[x] : x \in DOMAIN col}
    IN  CHOOSE v \in vals :
            /\ Cardinality({x \in DOMAIN col : RLt(col[x], v)}) < k
            /\ k <= Cardinality({x \in DOMAIN col : RLe(col[x], v)})

\* Series.median() of a non-empty column: the middle value, or the mean of the
\* two middle values
median(col) ==
    LET n == Cardinality(DOMAIN col)
    IN  IF n % 2 = 1
        THEN KthSmallest(col, (n + 1) \div 2)
        ELSE RDiv(RAdd(KthSmallest(col, n \div 2), KthSmallest(col, n \div 2 + 1)), RInt(2))

\* pd.merge(df_quant[quant_cols], df_qual[qual_cols], on="Fund Name", how="inner")
merge_scores(dquant, dqual) ==
    [n \in DOMAIN dquant \cap DOMAIN dqual |->
        [quant |-> dquant[n].quant, tier |-> dquant[n].tier, qual |-> dqual[n].qual]]

\* missing_count = len(df_quant) - len(df_merged)
missing_count(dquant, merged) ==
    Cardinality(DOMAIN dquant) - Cardinality(DOMAIN merged)

\* a variant that subtracts the qualitative term
calculate_combined_score_difference(merged, config) ==
    [n \in DOMAIN merged |->
        merged[n] @@ [combined |->
            RSub(RMul(merged[n].quant, config.quantitative_weight),
                 RMul(merged[n].qual, config.qualitative_weight))]]

\* calculate_combined_score: adds the "Combined Score" column
calculate_combined_score(merged, config) ==
    [n \in DOMAIN merged |->
        merged[n] @@ [combined |->
            RAdd(RMul(merged[n].quant, config.quantitative_weight),
                 RMul(merged[n].qual, config.qualitative_weight))]]

\* a variant whose "high" conditions are strict
assign_quadrant_strict(merged) ==
    IF DOMAIN merged = {} THEN merged
    ELSE LET qual_median == median([n \in DOMAIN merged |-> merged[n].qual])
             quant_median == median([n \in DOMAIN merged |-> merged[n].quant])
             quadrant(r) ==
                 IF RLt(qual_median, r.qual) /\ RLt(quant_median, r.quant)
                 THEN "Top Tier (High Qual, High Quant)"
                 ELSE IF RLt(r.qual, qual_median) /\ RLt(quant_median, r.quant)
                 THEN "Quant Leaders (Low Qual, High Quant)"
                 ELSE IF RLt(qual_median, r.qual) /\ RLt(r.quant, quant_median)
                 THEN "Qualitative Gems (High Qual, Low Quant)"
                 ELSE IF RLt(r.qual, qual_median) /\ RLt(r.quant, quant_median)
                 THEN "Development Area (Low Qual, Low Quant)"
                 ELSE "N/A"
         IN  [n \in DOMAIN merged |-> merged[n] @@ [quadrant |-> quadrant(merged[n])]]

\* assign_quadrant: np.select(conditions, choices, default="N/A") on the
\* median splits; the first condition that holds decides
assign_quadrant(merged) ==
    IF DOMAIN merged = {} THEN merged
    ELSE LET qual_median == median([n \in DOMAIN merged |-> merged[n].qual])
             quant_median == median([n \in DOMAIN merged |-> merged[n].quant])
             quadrant(r) ==
                 IF RLe(qual_median, r.qual) /\ RLe(quant_median, r.quant)
                 THEN "Top Tier (High Qual, High Quant)"
                 ELSE IF RLt(r.qual, qual_median) /\ RLe(quant_median, r.quant)
                 THEN "Quant Leaders (Low Qual, High Quant)"
                 ELSE IF RLe(qual_median, r.qual) /\ RLt(r.quant, quant_median)
                 THEN "Qualitative Gems (High Qual, Low Quant)"
                 ELSE IF RLt(r.qual, qual_median) /\ RLt(r.quant, quant_median)
                 THEN "Development Area (Low Qual, Low Quant)"
                 ELSE "N/A"
         IN  [n \in DOMAIN merged |-> merged[n] @@ [quadrant |-> quadrant(merged[n])]]

\* the fund names of the tables
NameSeq == <<"Fund 1", "Fund 2", "Fund 3", "Fund 4", "Fund 5", "Fund 6">>
FundNames == {NameSeq[i] : i \in 1..MaxCombFunds}

\* the composite scores the tables hold
ScoreSamples == {RInt(10), RInt(90)}

\* outputs/sma_scored.csv and outputs/qualitative_scored.csv as load_data returns them
QuantTables ==
    UNION {{[n \in S |-> [quant |-> f[n], tier |-> assign_tier(f[n])]] :
               f \in [S -> ScoreSamples]} : S \in SUBSET FundNames}
QualTables ==
    UNION {{[n \in S |-> [qual |-> f[n]]] : f \in [S -> ScoreSamples]} :
              S \in SUBSET FundNames}

\* main() of combine_scores.py after load_data
InitCombine ==
    /\ pc = "comb_start"
    /\ df_quant \in QuantTables
    /\ df_qual \in QualTables
    /\ df_merged = <<>>
    /\ merge_warning = 0
    /\ QuantIdle
    /\ QualIdle
    /\ TierIdle
    /\ AppIdle
    /\ PipeIdle
    /\ TenureIdle

\* df_merged = merge_scores(df_qual, df_quant), with its warning
MergeScores ==
    /\ pc = "comb_start"
    /\ df_merged' = merge_scores(df_quant, df_qual)
    /\ merge_warning' =
          IF missing_count(df_quant, merge_scores(df_quant, df_qual)) > 0
          THEN missing_count(df_quant, merge_scores(df_quant, df_qual))
          ELSE 0
    /\ pc' = "merged"
    /\ UNCHANGED <<df_quant, df_qual, quant_vars, qual_vars, tier_vars, app_vars, pipe_vars, tenure_vars>>

\* df_combined = calculate_combined_score(df_merged, config)
CalculateCombinedScore ==
    /\ pc = "merged"
    /\ df_merged' = calculate_combined_score(df_merged, get_combination_config)
    /\ pc' = "combined"
    /\ UNCHANGED <<df_quant, df_qual, merge_warning, quant_vars, qual_vars, tier_vars, app_vars, pipe_vars, tenure_vars>>

\* df_final = assign_quadrant(df_combined)
AssignQuadrant ==
    /\ pc = "combined"
    /\ df_merged' = assign_quadrant(df_merged)
    /\ pc' = "quadrant"
    /\ UNCHANGED <<df_quant, df_qual, merge_warning, quant_vars, qual_vars, tier_vars, app_vars, pipe_vars, tenure_vars>>

NextCombine ==
    \/ MergeScores
    \/ CalculateCombinedScore
    \/ AssignQuadrant

SpecCombine == InitCombine /\ [][NextCombine]_vars

-----------------------------------------------------------------------------
(* scripts/tier_explainer.py: the tier report.  The justification text of a   *)
(* tier is fixed by the tier and is not modelled.                             *)

\* Series.quantile(pct / 100) of a non-empty column, with linear interpolation
\* between the two neighbours of position (n - 1) * pct / 100
quantile(col, pct) ==
    LET n == Len(col)
        lo == ((n - 1) * pct) \div 100
        below == KthSmallest(col, lo + 1)
        above == KthSmallest(col, IF lo + 2 <= n THEN lo + 2 ELSE n)
    IN  RAdd(below, RMul(RSub(above, below), Rat(((n - 1) * pct) % 100, 100)))

\* the "Combined Score" column of a table
CombinedColumn(rows) == [i \in DOMAIN rows |-> rows[i].combined]

\* a variant that takes the 25th percentile as the cutoff of the top 25%
get_tier_thresholds_bottom_quarter(col) ==
    [tier1_cutoff |-> quantile(col, 25), tier2_cutoff |-> quantile(col, 50)]

\* get_tier_thresholds: the 75th and the 50th percentile
get_tier_thresholds(col) ==
    [tier1_cutoff |-> quantile(col, 75), tier2_cutoff |-> quantile(col, 50)]

\* get_tier_explanation of tier_explainer.py: the tier of a score
get_tier_explanation(score, th) ==
    IF RLe(th.tier1_cutoff, score) THEN "Tier 1"
    ELSE IF RLe(th.tier2_cutoff, score) THEN "Tier 2"
    ELSE "Tier 3"

\* the Combined Scores of the small populations
ReportScoreSamples == {RInt(10), RInt(40), RInt(50), RInt(90)}

\* populations of one hundred funds: distinct scores in ascending, descending
\* and scattered order, scores tied in pairs, and one score shared by all
HundredFunds ==
    {[i \in 1..100 |-> [combined |-> RInt(i)]],
     [i \in 1..100 |-> [combined |-> RInt(101 - i)]],
     [i \in 1..100 |-> [combined |-> Rat((i * 37) % 101, 2)]],
     [i \in 1..100 |-> [combined |-> RInt((i + 1) \div 2)]],
     [i \in 1..100 |-> [combined |-> RInt(50)]]}

\* outputs/combined_scores.csv as main() of tier_explainer.py reads it
ReportTables ==
    HundredFunds \cup
    UNION {{[i \in 1..n |-> [combined |-> f[i]]] : f \in [1..n -> ReportScoreSamples]} :
              n \in 1..MaxReportFunds}

InitTierReport ==
    /\ pc = "report_start"
    /\ df_combined \in ReportTables
    /\ thresholds = <<>>
    /\ df_with_tiers = <<>>
    /\ QuantIdle
    /\ QualIdle
    /\ CombIdle
    /\ AppIdle
    /\ PipeIdle
    /\ TenureIdle

\* main() of tier_explainer.py: thresholds from the full table, then the
\* "Assigned Tier" of every row
GenerateTierReport ==
    /\ pc = "report_start"
    /\ thresholds' = get_tier_thresholds(CombinedColumn(df_combined))
    /\ df_with_tiers' =
          [i \in DOMAIN df_combined |->
              df_combined[i] @@
                  [tier |-> get_tier_explanation(df_combined[i].combined,
                                get_tier_thresholds(CombinedColumn(df_combined)))]]
    /\ pc' = "report_done"
    /\ UNCHANGED <<df_combined, quant_vars, qual_vars, comb_vars, app_vars, pipe_vars, tenure_vars>>

NextTierReport == GenerateTierReport

SpecTierReport == InitTierReport /\ [][NextTierReport]_vars

-----------------------------------------------------------------------------
(* app.py: the dashboard.  One run of main() is one action; the widgets'      *)
(* values are the inputs of the run.  Filtering and rendering do not change   *)
(* the tables and are not modelled.                                           *)

\* a variant whose Tier 1 test is strict
app_get_tier_explanation_strict(score, th) ==
    IF RLt(th.tier1_cutoff, score) THEN "Tier 1"
    ELSE IF RLe(th.tier2_cutoff, score) THEN "Tier 2"
    ELSE "Tier 3"

\* get_tier_explanation of app.py: the tier of a score
app_get_tier_explanation(score, th) ==
    IF RLe(th.tier1_cutoff, score) THEN "Tier 1"
    ELSE IF RLe(th.tier2_cutoff, score) THEN "Tier 2"
    ELSE "Tier 3"

\* the thresholds apply_tier_and_justification computes
app_thresholds(rows, tier1_pct, tier2_pct) ==
    [tier1_cutoff |-> quantile(CombinedColumn(rows), tier1_pct),
     tier2_cutoff |-> quantile(CombinedColumn(rows), tier2_pct)]

\* apply_tier_and_justification: the rows with their "Tier" column
apply_tier_and_justification(rows, tier1_pct, tier2_pct) ==
    LET th == app_thresholds(rows, tier1_pct, tier2_pct)
    IN  [i \in DOMAIN rows |->
            [name |-> rows[i].name, combined |-> rows[i].combined,
             tier |-> app_get_tier_explanation(rows[i].combined, th)]]

\* run_scoring_for_new_fund: the uploaded quantitative frame is scored by
\* itself, the uploaded qualitative frame by calculate_final_score (KeyError
\* when a column is absent), and the two are inner-joined on "Fund Name"
run_scoring_for_new_fund(qual_up, quant_up) ==
    LET quant_config == get_scoring_config
        frame == [i \in DOMAIN quant_up |-> quant_up[i].row]
        df_quant_scored == calculate_scores(frame, quant_config)
        df_quant_composite ==
            calculate_composite_score(df_quant_scored, quant_config,
                                      validate_weights(quant_config))
        qual_config == get_qualitative_config
        qual_of(j) == weighted_qual_score(norm_row(qual_up[j].row, qual_config),
                                          qual_config.weights)
        merged ==
            IF qual_up[1].name = quant_up[1].name
            THEN <<[name |-> quant_up[1].name, quant |-> df_quant_composite[1],
                    qual |-> qual_of(1)]>>
            ELSE <<>>
    IN  IF required_columns(qual_config) \subseteq DOMAIN qual_up[1].row
        THEN [raised |-> FALSE,
              rows |-> calculate_combined_score(merged, get_combination_config)]
        ELSE [raised |-> TRUE, rows |-> <<>>]

\* a variant that leaves the new fund out of the tiered table
display_population_existing_only(existing, nf) == existing

\* pd.concat([df_combined, st.session_state.new_fund_df]) when a new fund is
\* in the session state
display_population(existing, nf) ==
    IF nf.is_none THEN existing ELSE existing \o nf.rows

NewFundName == "New Fund"

\* the slider values the model draws: 50 <= tier1_pct <= 100 and
\* 0 <= tier2_pct <= tier1_pct - 1
PctSamples == {<<75, 50>>, <<90, 25>>, <<100, 0>>}

\* the uploaded quantitative files: one row, fully reported or without a
\* value for "Alpha (Since Inception)"
QuantUploads ==
    {<<[name |-> NewFundName, row |-> [m \in DOMAIN get_scoring_config |-> <<2>>]]>>,
     <<[name |-> NewFundName,
        row |-> [m \in DOMAIN get_scoring_config |->
                    IF m = "Alpha (Since Inception)" THEN <<>> ELSE <<2>>]]>>}

StrongQualRow ==
    [c \in QualColumns |->
        CASE c = "Team Depth" -> "Large"
          [] c = "Transparency & Reporting" -> "Very High"
          [] c = "Consistency of Process" -> "Very Strong"
          [] c = TenureColumn -> [isstr |-> TRUE, chars |-> <<"2", "5", "+">>]]

\* the uploaded qualitative files: one row for the same fund, one row for a
\* fund of another name, and a file without the tenure column
QualUploads ==
    {<<[name |-> NewFundName, row |-> StrongQualRow]>>,
     <<[name |-> "Other Fund", row |-> StrongQualRow]>>,
     <<[name |-> NewFundName,
        row |-> [c \in QualColumns \ {TenureColumn} |-> StrongQualRow[c]]]>>}

\* the raw quantitative frames behind outputs/combined_scores.csv
AppQuantFrames ==
    UNION {[1..n -> [DOMAIN get_scoring_config -> {<<1>>, <<3>>}]] : n \in 1..MaxAppFunds}

AppQualScores == {RInt(20), RInt(80)}

\* outputs/combined_scores.csv as the pipeline writes it for the raw frame
\* and the qualitative scores qs
pipeline_output(frame, qs) ==
    LET cfg == get_scoring_config
        quant == calculate_composite_score(calculate_scores(frame, cfg), cfg,
                                           validate_weights(cfg))
    IN  calculate_combined_score(
            [i \in DOMAIN frame |-> [name |-> NameSeq[i], quant |-> quant[i], qual |-> qs[i]]],
            get_combination_config)

\* df_final.sort_values(by="Combined Score", ascending=False) of combine_scores
SortedByCombined(rows) ==
    \A i \in 1..(Len(rows) - 1) : RLe(rows[i + 1].combined, rows[i].combined)

\* the dashboard before its first run: the raw funds are listed in the order
\* of the sorted output
InitApp ==
    /\ pc = "app_start"
    /\ metrics_info = get_scoring_config
    /\ df \in AppQuantFrames
    /\ total_weight = <<>>
    /\ scores = <<>>
    /\ quant_score = <<>>
    /\ quant_tier = <<>>
    /\ \E qs \in [1..Len(df) -> AppQualScores] :
          /\ SortedByCombined(pipeline_output(df, qs))
          /\ df_combined = pipeline_output(df, qs)
    /\ thresholds = <<>>
    /\ df_with_tiers = <<>>
    /\ QualIdle
    /\ CombIdle
    /\ AppIdle
    /\ PipeIdle
    /\ TenureIdle

\* the end of main(): tiers for the potentially expanded table
RenderTiers(pcts, nf) ==
    /\ tier_pcts' = pcts
    /\ thresholds' = app_thresholds(display_population(df_combined, nf), pcts[1], pcts[2])
    /\ df_with_tiers' =
          apply_tier_and_justification(display_population(df_combined, nf), pcts[1], pcts[2])
    /\ pc' = "rendered"

\* a run of main() in which "Score and Compare" is not clicked
RunMain ==
    /\ pc \in {"app_start", "rendered"}
    /\ \E pcts \in PctSamples : RenderTiers(pcts, new_fund_df)
    /\ UNCHANGED <<df_combined, new_fund_df, uploaded_quant, click_result,
                   quant_vars, qual_vars, comb_vars, pipe_vars, tenure_vars>>

\* a run of main() in which "Score and Compare" is clicked with both files
\* uploaded: an exception is reported and leaves the session state as it was
RunMainScoreAndCompare ==
    /\ pc \in {"app_start", "rendered"}
    /\ \E pcts \in PctSamples, new_qual_df \in QualUploads, new_quant_df \in QuantUploads :
          LET newly_scored_df == run_scoring_for_new_fund(new_qual_df, new_quant_df)
              nf == IF newly_scored_df.raised
                    THEN new_fund_df
                    ELSE [is_none |-> FALSE, rows |-> newly_scored_df.rows]
          IN  /\ new_fund_df' = nf
              /\ uploaded_quant' = new_quant_df
              /\ click_result' = IF newly_scored_df.raised THEN "error" ELSE "scored"
              /\ RenderTiers(pcts, nf)
    /\ UNCHANGED <<df_combined, quant_vars, qual_vars, comb_vars, pipe_vars, tenure_vars>>

NextApp ==
    \/ RunMain
    \/ RunMainScoreAndCompare

SpecApp == InitApp /\ [][NextApp]_vars

-----------------------------------------------------------------------------
(* main.py: the pipeline, run again and again on the same data files.  One    *)
(* action is main() of one script; a CSV file is held as the table written to *)
(* it.  data_preprocessor writes two files no later stage reads and is not    *)
(* modelled.                                                                  *)

FundNameColumn == "Fund Name"

\* a variant that appends to the file (mode="a")
to_csv_append(old, table) == old \o table

\* df.to_csv(path, index=False): the file holds the table, whatever it held
to_csv(old, table) == table

\* a file of rows with a name field, as a table keyed by "Fund Name"
ByName(rows) ==
    [n \in {rows[i].name : i \in DOMAIN rows} |->
        rows[CHOOSE i \in DOMAIN rows : rows[i].name = n]]

\* the position of a fund name in NameSeq
NameIndex(n) == CHOOSE i \in DOMAIN NameSeq : NameSeq[i] = n

\* df_final.sort_values(by="Combined Score", ascending=False): the rows of a
\* table keyed by name, highest Combined Score first, ties in name order
RECURSIVE sort_values(_)
sort_values(table) ==
    IF DOMAIN table = {} THEN <<>>
    ELSE LET top == CHOOSE n \in DOMAIN table :
                        \A o \in DOMAIN table :
                            \/ RLt(table[o].combined, table[n].combined)
                            \/ /\ table[o].combined = table[n].combined
                               /\ NameIndex(n) <= NameIndex(o)
         IN  <<[name |-> top] @@ table[top]>>
                 \o sort_values([n \in DOMAIN table \ {top} |-> table[n]])

\* main() of scoring_engine.py on the frame of data/sma_data_structured.csv
sma_scored_table(frame) ==
    LET cfg == get_scoring_config
        quant == calculate_composite_score(calculate_scores(frame, cfg), cfg,
                                           validate_weights(cfg))
        tier == apply_tier_logic(quant)
    IN  [i \in DOMAIN frame |->
            [name |-> frame[i][FundNameColumn], quant |-> quant[i], tier |-> tier[i]]]

\* calculate_final_score on the frame of data/Qualitative Scoring.csv
qualitative_scored_table(frame) ==
    [i \in DOMAIN frame |->
        [name |-> frame[i][FundNameColumn],
         qual |-> weighted_qual_score(norm_row(frame[i], get_qualitative_config),
                                      get_qualitative_config.weights)]]

\* main() of combine_scores.py on the two score files
combined_scores_table(quant_file, qual_file) ==
    sort_values(assign_quadrant(calculate_combined_score(
        merge_scores(ByName(quant_file), ByName(qual_file)), get_combination_config)))

\* data/sma_data_structured.csv: funds "Fund 1".."Fund n"
PipeQuantFrames ==
    UNION {{[i \in 1..n |-> (FundNameColumn :> NameSeq[i]) @@ f[i]] :
              f \in [1..n -> {r \in [DOMAIN get_scoring_config -> {<<>>, <<1>>, <<3>>}] :
                                 r["Max Drawdown (3Y)"] # <<>>}]} :
           n \in 1..MaxPipeFunds}

WeakQualRow ==
    [c \in QualColumns |->
        CASE c = "Team Depth" -> "Small"
          [] c = "Transparency & Reporting" -> "Low"
          [] c = "Consistency of Process" -> "Still forming"
          [] c = TenureColumn -> [isstr |-> TRUE, chars |-> <<"<", "5">>]]

\* data/Qualitative Scoring.csv: funds "Fund 1".."Fund n" or
\* "Fund 2".."Fund n+1", with or without the tenure column
PipeQualFrames ==
    UNION {{[i \in 1..n |->
                (FundNameColumn :> NameSeq[i + off]) @@ [c \in cols |-> f[i][c]]] :
              f \in [1..n -> {StrongQualRow, WeakQualRow}],
              off \in {0, 1},
              cols \in {QualColumns, QualColumns \ {TenureColumn}}} :
           n \in 1..MaxPipeFunds}

InitPipeline ==
    /\ pc = "pipe_start"
    /\ metrics_info = get_scoring_config
    /\ df \in PipeQuantFrames
    /\ total_weight = <<>>
    /\ scores = <<>>
    /\ quant_score = <<>>
    /\ quant_tier = <<>>
    /\ qual_df \in PipeQualFrames
    /\ raw_scores = <<>>
    /\ norm_scores = <<>>
    /\ total_score = <<>>
    /\ average_score = <<>>
    /\ qual_score = <<>>
    /\ qual_err = "none"
    /\ files = NoFiles
    /\ run = 1
    /\ first_outputs = NoFiles
    /\ CombIdle
    /\ TierIdle
    /\ AppIdle
    /\ TenureIdle

\* score_quantitative(): outputs/sma_scored.csv is written
ScoreQuantitative ==
    /\ pc = "pipe_start"
    /\ files' = [files EXCEPT !.sma_scored = to_csv(@, sma_scored_table(df))]
    /\ pc' = "pipe_quant"
    /\ UNCHANGED <<run, first_outputs, quant_vars, qual_vars, comb_vars, tier_vars, app_vars, tenure_vars>>

\* score_qualitative(): outputs/qualitative_scored.csv is written, or the
\* KeyError of an absent column ends the run
ScoreQualitative ==
    /\ pc = "pipe_quant"
    /\ IF required_columns(get_qualitative_config) \subseteq Columns(qual_df)
       THEN /\ files' = [files EXCEPT
                            !.qualitative_scored = to_csv(@, qualitative_scored_table(qual_df))]
            /\ qual_err' = "none"
            /\ pc' = "pipe_qual"
       ELSE /\ qual_err' = "KeyError"
            /\ pc' = "pipe_failed"
            /\ UNCHANGED files
    /\ UNCHANGED <<run, first_outputs, quant_vars, qual_df, raw_scores, norm_scores,
                   total_score, average_score, qual_score, comb_vars, tier_vars, app_vars, tenure_vars>>

\* combine_all_scores(): the two score files are read and
\* outputs/combined_scores.csv is written
CombineAllScores ==
    /\ pc = "pipe_qual"
    /\ files' = [files EXCEPT
                    !.combined_scores =
                        to_csv(@, combined_scores_table(files.sma_scored,
                                                        files.qualitative_scored))]
    /\ pc' = "pipe_done"
    /\ UNCHANGED <<run, first_outputs, quant_vars, qual_vars, comb_vars, tier_vars, app_vars, tenure_vars>>

\* main.py is started again on the same data files; outputs/ is as the last
\* run left it
RunAgain ==
    /\ pc \in {"pipe_done", "pipe_failed"}
    /\ run < MaxRuns
    /\ run' = run + 1
    /\ first_outputs' = IF run = 1 THEN files ELSE first_outputs
    /\ qual_err' = "none"
    /\ pc' = "pipe_start"
    /\ UNCHANGED <<files, quant_vars, qual_df, raw_scores, norm_scores, total_score,
                   average_score, qual_score, comb_vars, tier_vars, app_vars, tenure_vars>>

NextPipeline ==
    \/ ScoreQuantitative
    \/ ScoreQualitative
    \/ CombineAllScores
    \/ RunAgain

SpecPipeline == InitPipeline /\ [][NextPipeline]_vars

-----------------------------------------------------------------------------
(* parse_tenure and the "Manager Tenure Score" of one cell of the tenure      *)
(* column, lines 128-129 of calculate_final_score                             *)

\* the characters the tenure texts are written in
TenureChars == {"0", "1", "2", "5", "-", "+", "<", ".", "y"}

\* the cells of the tenure column: a str of up to MaxTenureLen characters, or
\* a value that is not a str (NaN, a number)
TenureCells ==
    {[isstr |-> FALSE, chars |-> <<>>]} \cup
    {[isstr |-> TRUE, chars |-> c] :
        c \in UNION {[1..n -> TenureChars] : n \in 0..MaxTenureLen}}

InitTenure ==
    /\ pc = "tenure_start"
    /\ tenure_in \in TenureCells
    /\ tenure_parsed = <<>>
    /\ tenure_norm = <<>>
    /\ QuantIdle
    /\ QualIdle
    /\ CombIdle
    /\ TierIdle
    /\ AppIdle
    /\ PipeIdle

\* tenure_scores = ....apply(parse_tenure); (tenure_scores / 20).clip(0, 1)
ApplyParseTenure ==
    /\ pc = "tenure_start"
    /\ tenure_parsed' = parse_tenure(tenure_in)
    /\ tenure_norm' = tenure_score(tenure_in)
    /\ pc' = "tenure_done"
    /\ UNCHANGED <<tenure_in, quant_vars, qual_vars, comb_vars, tier_vars, app_vars, pipe_vars>>

NextTenure == ApplyParseTenure

SpecTenure == InitTenure /\ [][NextTenure]_vars

-----------------------------------------------------------------------------
(* Properties of the quantitative pipeline *)

Scored == pc \in {"scored", "composite", "tiered"}

\* the value of row i for metric m in the input frame (the row reports m)
RawValue(i, m) == df[i][m][1]

\* the rows that report metric m (none when the column is absent)
Reporting(m) == IF m \in Columns(df) THEN valid_mask(df, m) ELSE {}

\* the rows of Reporting(m) with the highest / the lowest raw value
Highest(m) == {i \in Reporting(m) : \A j \in Reporting(m) : RawValue(j, m) <= RawValue(i, m)}
Lowest(m) == {i \in Reporting(m) : \A j \in Reporting(m) : RawValue(i, m) <= RawValue(j, m)}

\* the tie-averaged top percentile of k equal best values among n ranked ones
TopScore(n, k) == Rat(2 * n - k + 1, 2 * n)

\* C1: the Quantitative Score of every fund is 100 * sum over all configured
\* metrics of (metric score * weight) / total_weight, total_weight being the
\* sum of all configured weights, and it lies between 0 and 100.
C1_CompositeIsWeightedMean ==
    pc \in {"composite", "tiered"} =>
        LET M == DOMAIN metrics_info
            W == RSum([m \in M |-> metrics_info[m].weight], M)
        IN  /\ total_weight = W
            /\ \A i \in DOMAIN df :
                  /\ quant_score[i] =
                        RDiv(RMul(RInt(100),
                                  RSum([m \in M |-> RMul(scores[i][m], metrics_info[m].weight)], M)),
                             W)
                  /\ RLe(RInt(0), quant_score[i])
                  /\ RLe(quant_score[i], RInt(100))

C1_Witness ==
    /\ pc = "composite"
    /\ \E i, j \in DOMAIN df : RLt(quant_score[i], quant_score[j])
    /\ \E i \in DOMAIN df : \E m \in Columns(df) : df[i][m] = <<>>

\* C2: a fund whose value for metric M is missing scores 0.5 * (1 - penalty of M)
\* for M, whatever the size of the population and the values of the other funds.
C2_MissingScoreIsConstant ==
    Scored =>
        \A m \in DOMAIN metrics_info : \A i \in DOMAIN df :
            i \notin Reporting(m) =>
                scores[i][m] = RDiv(RSub(RInt(1), metrics_info[m].penalty), RInt(2))

C2_Witness ==
    /\ Scored
    /\ Len(df) >= 3
    /\ \E m \in Columns(df) : \E i, j \in DOMAIN df :
          /\ i \notin Reporting(m)
          /\ j \in Reporting(m)

\* the frame without the rows that miss metric m, and the index row i takes in it
WithoutMissing(m) == SelectSeq(df, LAMBDA r : r[m] # <<>>)
IndexWithoutMissing(m, i) == Cardinality({j \in Reporting(m) : j <= i})

\* C3: the score of every fund that reports metric M is the score it gets when
\* all funds missing M are removed from the population.
C3_MissingDoNotDistortRanking ==
    Scored =>
        \A m \in DOMAIN metrics_info : \A i \in Reporting(m) :
            scores[i][m] =
                compute_metric_score(WithoutMissing(m), m, metrics_info[m])
                    [IndexWithoutMissing(m, i)]

C3_Witness ==
    /\ Scored
    /\ \E m \in Columns(df) : \E i, j, k \in DOMAIN df :
          /\ i \notin Reporting(m)
          /\ j \in Reporting(m) /\ k \in Reporting(m)
          /\ RawValue(j, m) < RawValue(k, m)
          /\ i < j

\* C4 as stated: when every fund is missing a metric, every fund scores the
\* neutral midpoint 0.5 for it.
C4_AllMissingScoresNeutral ==
    Scored =>
        \A m \in DOMAIN metrics_info :
            Reporting(m) = {} => \A i \in DOMAIN df : scores[i][m] = Rat(1, 2)

\* C4 amended: when every fund is missing a metric (the column is absent or
\* holds no value), the normalizer completes and every fund scores the
\* penalized neutral score 0.5 * (1 - penalty) for it, with no division by zero.
C4_AllMissingScoresPenalizedNeutral ==
    Scored =>
        \A m \in DOMAIN metrics_info :
            Reporting(m) = {} =>
                /\ DOMAIN scores = DOMAIN df
                /\ \A i \in DOMAIN df :
                      /\ scores[i][m][2] > 0
                      /\ scores[i][m] =
                            RDiv(RSub(RInt(1), metrics_info[m].penalty), RInt(2))

C4_Witness ==
    /\ Scored
    /\ Len(df) >= 2
    /\ \E m \in Columns(df) : Reporting(m) = {}
    /\ \E m \in DOMAIN metrics_info : m \notin Columns(df)

\* C6: for a higher-is-better metric the funds with the highest reported value
\* get the top percentile score, 1 when the value is unique and the
\* tie-averaged maximum otherwise, and no fund scores higher.
C6_HigherBestGetsTopScore ==
    Scored =>
        \A m \in DOMAIN metrics_info :
            (metrics_info[m].direction = "higher" /\ Reporting(m) # {}) =>
                \A i \in Highest(m) :
                    /\ scores[i][m] =
                          TopScore(Cardinality(Reporting(m)), Cardinality(Highest(m)))
                    /\ Cardinality(Highest(m)) = 1 => scores[i][m] = RInt(1)
                    /\ \A j \in DOMAIN df : RLe(scores[j][m], scores[i][m])

C6_Witness ==
    /\ Scored
    /\ \E m \in DOMAIN metrics_info :
          /\ metrics_info[m].direction = "higher"
          /\ Cardinality(Highest(m)) = 2
          /\ Cardinality(Reporting(m)) = 3

\* C7: for a lower-is-better metric the funds with the lowest reported value
\* get the top percentile score, the same one the best funds of a
\* higher-is-better metric get among as many reported values, and no fund
\* scores higher.
C7_LowerBestGetsTopScore ==
    Scored =>
        \A m \in DOMAIN metrics_info :
            (metrics_info[m].direction = "lower" /\ Reporting(m) # {}) =>
                \A i \in Lowest(m) :
                    /\ scores[i][m] =
                          TopScore(Cardinality(Reporting(m)), Cardinality(Lowest(m)))
                    /\ \A j \in DOMAIN df : RLe(scores[j][m], scores[i][m])

\* the configuration of a metric with its direction swapped
SwapDirection(cfg) ==
    [cfg EXCEPT !.direction = IF cfg.direction = "lower" THEN "higher" ELSE "lower"]

\* C8: re-scoring a metric with its direction swapped reverses the order of
\* any two funds with distinct reported values.
C8_SwapDirectionReversesOrder ==
    Scored =>
        \A m \in DOMAIN metrics_info :
            LET swapped == compute_metric_score(df, m, SwapDirection(metrics_info[m]))
            IN  \A a, b \in Reporting(m) :
                    RawValue(a, m) # RawValue(b, m) =>
                        (RLt(scores[b][m], scores[a][m]) <=> RLt(swapped[a], swapped[b]))

C8_Witness ==
    /\ Scored
    /\ \E m \in DOMAIN metrics_info : \E a, b \in Reporting(m) :
          /\ RawValue(a, m) < RawValue(b, m)
          /\ RLt(scores[b][m], scores[a][m])

-----------------------------------------------------------------------------
(* Properties of the qualitative scorer *)

\* C5: an expected column that is absent from the input is never a hard
\* failure: the qualitative scorer completes and gives every fund a
\* Qualitative Score.
C5_AbsentColumnNeverFails ==
    pc \in {"qual_done", "qual_failed"} =>
        /\ qual_err = "none"
        /\ DOMAIN qual_score = DOMAIN qual_df

\* C9: a label that is no key of its attribute's table, the missing label
\* included, scores 0 for the attribute and raises nothing: the fund still
\* gets a Qualitative Score, and the scorer fails only when a column it reads
\* is absent.  With the table {High: 3, Medium: 2, Low: 1}, "VeryHigh" scores 0.
C9_UnmappedLabelScoresZero ==
    /\ score_attribute("VeryHigh", ("High" :> 3) @@ ("Medium" :> 2) @@ ("Low" :> 1)) = 0
    /\ pc = "qual_failed" => ~(QualColumns \subseteq Columns(qual_df))
    /\ pc = "qual_done" =>
          \A i \in DOMAIN qual_df : \A a \in DOMAIN get_qualitative_config.mappings :
              qual_df[i][a] \notin DOMAIN get_qualitative_config.mappings[a] =>
                  /\ raw_scores[i][a] = 0
                  /\ qual_err = "none"
                  /\ i \in DOMAIN qual_score

C9_Witness ==
    /\ pc = "qual_done"
    /\ \E i \in DOMAIN qual_df :
          /\ qual_df[i]["Team Depth"] = "VeryHigh"
          /\ qual_df[i]["Transparency & Reporting"] = NaNLabel
          /\ RLt(RInt(0), qual_score[i])

\* the largest value of a label table
LargestValue(mapping) ==
    CHOOSE v \in {mapping[k] : k \in DOMAIN mapping} :
        \A u \in {mapping[k] : k \in DOMAIN mapping} : u <= v

\* C10: every categorical score is its mapped score divided by the largest
\* value of its table and lies in [0,1]; the Qualitative Score is 100 * the sum
\* over all weighted attributes, tenure included, of normalized score * weight,
\* divided by the sum of all configured weights, and lies between 0 and 100.
C10_QualitativeIsWeightedMean ==
    pc = "qual_done" =>
        LET mappings == get_qualitative_config.mappings
            weights == get_qualitative_config.weights
            W == RSum(weights, DOMAIN weights)
        IN  \A i \in DOMAIN qual_df :
              /\ \A a \in DOMAIN mappings :
                    /\ norm_scores[i][norm_col_name(a)] =
                          RDiv(RInt(raw_scores[i][a]), RInt(LargestValue(mappings[a])))
                    /\ RLe(RInt(0), norm_scores[i][norm_col_name(a)])
                    /\ RLe(norm_scores[i][norm_col_name(a)], RInt(1))
              /\ DOMAIN norm_scores[i] = DOMAIN weights
              /\ qual_score[i] =
                    RDiv(RMul(RInt(100),
                              RSum([c \in DOMAIN weights |-> RMul(norm_scores[i][c], weights[c])],
                                   DOMAIN weights)),
                         W)
              /\ RLe(RInt(0), qual_score[i])
              /\ RLe(qual_score[i], RInt(100))

C10_Witness ==
    /\ pc = "qual_done"
    /\ \E i \in DOMAIN qual_df :
          /\ RLt(RInt(0), norm_scores[i]["Manager Tenure Score"])
          /\ RLt(norm_scores[i]["Manager Tenure Score"], RInt(1))
          /\ norm_scores[i]["Team Depth Score"] = Rat(1, 2)
          /\ norm_scores[i]["Transparency & Reporting Score"] = RInt(1)
          /\ RLt(qual_score[i], RInt(100))

-----------------------------------------------------------------------------
(* Properties of combine_scores.py *)

\* C11: the Combined Score of every fund is Quantitative Score * 0.6 +
\* Qualitative Score * 0.4 (the configured non-negative weights), and it is
\* monotonic in each composite: of two funds with the same Qualitative Score
\* the one with the higher Quantitative Score has no lower Combined Score,
\* and likewise with the two composites exchanged.
C11_CombinedIsMonotonicWeightedSum ==
    pc \in {"combined", "quadrant"} =>
        /\ \A n \in DOMAIN df_merged :
              df_merged[n].combined =
                  RDiv(RAdd(RMul(RInt(6), df_quant[n].quant), RMul(RInt(4), df_qual[n].qual)),
                       RInt(10))
        /\ \A a, b \in DOMAIN df_merged :
              /\ (df_merged[a].qual = df_merged[b].qual
                    /\ RLe(df_merged[a].quant, df_merged[b].quant))
                  => RLe(df_merged[a].combined, df_merged[b].combined)
              /\ (df_merged[a].quant = df_merged[b].quant
                    /\ RLe(df_merged[a].qual, df_merged[b].qual))
                  => RLe(df_merged[a].combined, df_merged[b].combined)

C11_Witness ==
    /\ pc = "combined"
    /\ \E a, b \in DOMAIN df_merged :
          /\ df_merged[a].qual = df_merged[b].qual
          /\ RLt(df_merged[a].quant, df_merged[b].quant)
          /\ RLt(df_merged[a].combined, df_merged[b].combined)

\* the funds of either source that the merged table does not hold
Dropped == (DOMAIN df_quant \cup DOMAIN df_qual) \ DOMAIN df_merged

\* C12: the merged table holds exactly the funds present in both sources, and
\* whenever at least one fund is dropped a warning carrying the number of
\* dropped funds is emitted.
C12_DroppedFundsAreReported ==
    pc \in {"merged", "combined", "quadrant"} =>
        /\ DOMAIN df_merged = DOMAIN df_quant \cap DOMAIN df_qual
        /\ Dropped # {} => merge_warning = Cardinality(Dropped)

\* the population of the quadrant scenario:
\* (quant, qual) = (10, 10), (90, 90), (10, 90), (90, 10)
QuadrantScenario ==
    /\ DOMAIN df_merged = {"Fund 1", "Fund 2", "Fund 3", "Fund 4"}
    /\ df_merged["Fund 1"].quant = RInt(10) /\ df_merged["Fund 1"].qual = RInt(10)
    /\ df_merged["Fund 2"].quant = RInt(90) /\ df_merged["Fund 2"].qual = RInt(90)
    /\ df_merged["Fund 3"].quant = RInt(10) /\ df_merged["Fund 3"].qual = RInt(90)
    /\ df_merged["Fund 4"].quant = RInt(90) /\ df_merged["Fund 4"].qual = RInt(10)

\* C17: every fund is in exactly one of the four quadrants, never "N/A",
\* decided only by whether its Qualitative Score and its Quantitative Score
\* are at/above or below their population medians; in the scenario population
\* the four funds are in four distinct quadrants.
C17_QuadrantIsMedianSplit ==
    pc = "quadrant" /\ DOMAIN df_merged # {} =>
        LET qual_med == median([n \in DOMAIN df_merged |-> df_qual[n].qual])
            quant_med == median([n \in DOMAIN df_merged |-> df_quant[n].quant])
            high_qual(n) == RLe(qual_med, df_merged[n].qual)
            high_quant(n) == RLe(quant_med, df_merged[n].quant)
        IN  /\ \A n \in DOMAIN df_merged :
                  df_merged[n].quadrant =
                      CASE high_qual(n) /\ high_quant(n) -> "Top Tier (High Qual, High Quant)"
                        [] ~high_qual(n) /\ high_quant(n) -> "Quant Leaders (Low Qual, High Quant)"
                        [] high_qual(n) /\ ~high_quant(n) -> "Qualitative Gems (High Qual, Low Quant)"
                        [] ~high_qual(n) /\ ~high_quant(n) -> "Development Area (Low Qual, Low Quant)"
            /\ QuadrantScenario =>
                  Cardinality({df_merged[n].quadrant : n \in DOMAIN df_merged}) = 4

C17_Witness ==
    /\ pc = "quadrant"
    /\ QuadrantScenario
    /\ df_merged["Fund 3"].quadrant = "Qualitative Gems (High Qual, Low Quant)"

-----------------------------------------------------------------------------
(* Further properties of the quantitative pipeline *)

\* the configuration mi with every weight multiplied by k
ScaleWeights(mi, k) ==
    [m \in DOMAIN mi |-> [mi[m] EXCEPT !.weight = RMul(k, mi[m].weight)]]

\* the constants the weights are scaled by
ScaleFactors == {Rat(1, 2), RInt(2), RInt(3), RInt(20)}

\* C18: multiplying every metric weight by the same k > 0, the total weight
\* being recomputed by validate_weights, leaves every Quantitative Score
\* unchanged.
C18_CompositeIsScaleInvariant ==
    pc \in {"composite", "tiered"} =>
        \A k \in ScaleFactors :
            calculate_composite_score(scores, ScaleWeights(metrics_info, k),
                                      validate_weights(ScaleWeights(metrics_info, k)))
                = quant_score

C18_Witness ==
    /\ pc = "composite"
    /\ Len(df) >= 2
    /\ \E i, j \in DOMAIN quant_score :
          RLt(RInt(0), quant_score[i]) /\ RLt(quant_score[i], quant_score[j])
    /\ validate_weights(ScaleWeights(metrics_info, RInt(20))) = RInt(3)

\* C19: with Sharpe (higher, 0.6) and Drawdown (lower, 0.4) and three funds
\* with Sharpe 1.0, 2.0, 3.0 and Drawdown -0.3, -0.2, -0.1, fund 3 has the
\* strictly highest Quantitative Score and fund 1 the strictly lowest.
C19_SharpeDrawdownOrder ==
    (/\ pc \in {"composite", "tiered"}
     /\ metrics_info = SharpeDrawdownConfig
     /\ df = SharpeDrawdownFrame)
        => /\ RLt(quant_score[1], quant_score[2])
           /\ RLt(quant_score[2], quant_score[3])

C19_Witness ==
    /\ pc = "composite"
    /\ metrics_info = SharpeDrawdownConfig
    /\ df = SharpeDrawdownFrame
    /\ quant_score = <<Rat(140, 3), Rat(160, 3), RInt(60)>>

-----------------------------------------------------------------------------
(* Properties of the tier report *)

\* the rows of the tiered table with the tier t
InTier(t) == {i \in DOMAIN df_with_tiers : df_with_tiers[i].tier = t}

\* every fund of tier a has a higher Combined Score than every fund of tier b
TierAbove(a, b) ==
    \A i \in InTier(a) : \A j \in InTier(b) :
        RLt(df_with_tiers[j].combined, df_with_tiers[i].combined)

HundredSplit ==
    /\ Cardinality(InTier("Tier 1")) = 25
    /\ Cardinality(InTier("Tier 2")) = 25
    /\ Cardinality(InTier("Tier 3")) = 50
    /\ TierAbove("Tier 1", "Tier 2")
    /\ TierAbove("Tier 2", "Tier 3")

\* C14 as stated: for a population of 100 funds and the default cutoffs,
\* exactly the top 25 funds by Combined Score are Tier 1, the next 25 are
\* Tier 2 and the remaining 50 are Tier 3.
C14_HundredFundsSplit ==
    (pc = "report_done" /\ Len(df_combined) = 100) => HundredSplit

\* C14 amended: the same, for a population of 100 funds whose Combined Scores
\* are pairwise distinct.
C14_HundredDistinctFundsSplit ==
    (/\ pc = "report_done"
     /\ Len(df_combined) = 100
     /\ \A i, j \in DOMAIN df_combined :
            i # j => df_combined[i].combined # df_combined[j].combined)
        => HundredSplit

C14_Witness ==
    /\ pc = "report_done"
    /\ Len(df_combined) = 100
    /\ df_combined[1].combined = Rat(37, 2)
    /\ Cardinality(InTier("Tier 1")) = 25

-----------------------------------------------------------------------------
(* Properties of the dashboard *)

\* the table the tiers are computed for
Population == display_population(df_combined, new_fund_df)

\* C13: every fund gets exactly one of Tier 1, Tier 2, Tier 3: Tier 1 iff its
\* Combined Score is at or above the higher cutoff, Tier 2 iff it is at or
\* above the lower cutoff but below the higher, Tier 3 otherwise; the cutoffs
\* are the configured percentiles of the current population's Combined Scores.
C13_TierIsPercentileBand ==
    pc = "rendered" =>
        LET hi == quantile(CombinedColumn(Population), tier_pcts[1])
            lo == quantile(CombinedColumn(Population), tier_pcts[2])
        IN  /\ Len(df_with_tiers) = Len(Population)
            /\ \A i \in DOMAIN df_with_tiers :
                  LET s == Population[i].combined
                      t == df_with_tiers[i].tier
                  IN  /\ t \in {"Tier 1", "Tier 2", "Tier 3"}
                      /\ (t = "Tier 1") <=> RLe(hi, s)
                      /\ (t = "Tier 2") <=> (RLe(lo, s) /\ RLt(s, hi))
                      /\ (t = "Tier 3") <=> ~(RLe(hi, s) \/ RLe(lo, s))

C13_Witness ==
    /\ pc = "rendered"
    /\ tier_pcts = <<75, 50>>
    /\ \A t \in {"Tier 1", "Tier 2", "Tier 3"} : InTier(t) # {}
    /\ \E i \in DOMAIN df_with_tiers : df_with_tiers[i].combined = thresholds.tier2_cutoff

\* C15: the scores of a newly submitted fund reflect its position in the whole
\* population: its Quantitative Score is the one calculate_scores and
\* calculate_composite_score give it over the existing funds plus the new fund.
C15_NewFundScoredAgainstPopulation ==
    (pc = "rendered" /\ click_result = "scored" /\ new_fund_df.rows # <<>>) =>
        LET whole == df \o <<uploaded_quant[1].row>>
            cfg == get_scoring_config
        IN  new_fund_df.rows[1].quant =
                calculate_composite_score(calculate_scores(whole, cfg), cfg,
                                          validate_weights(cfg))[Len(whole)]

\* the tier of a score under given cutoffs
TierUnder(s, th) ==
    IF RLe(th.tier1_cutoff, s) THEN "Tier 1"
    ELSE IF RLe(th.tier2_cutoff, s) THEN "Tier 2"
    ELSE "Tier 3"

\* C16: whenever the new fund in the session changes, the cutoffs are those of
\* the expanded population and every fund's Tier is the one these cutoffs
\* give, so an existing fund's Tier can change with its score unchanged.
C16_TiersFollowExpandedPopulation ==
    [][new_fund_df' # new_fund_df =>
          LET expanded == df_combined \o new_fund_df'.rows
              th == [tier1_cutoff |-> quantile(CombinedColumn(expanded), tier_pcts'[1]),
                     tier2_cutoff |-> quantile(CombinedColumn(expanded), tier_pcts'[2])]
          IN  /\ thresholds' = th
              /\ Len(df_with_tiers') = Len(expanded)
              /\ \A i \in DOMAIN expanded :
                    /\ df_with_tiers'[i].name = expanded[i].name
                    /\ df_with_tiers'[i].combined = expanded[i].combined
                    /\ df_with_tiers'[i].tier = TierUnder(expanded[i].combined, th)]_vars

\* an existing fund whose Tier with the new fund differs from its Tier without
C16_Witness ==
    /\ pc = "rendered"
    /\ new_fund_df.rows # <<>>
    /\ \E i \in DOMAIN df_combined :
          /\ df_with_tiers[i].combined = df_combined[i].combined
          /\ df_with_tiers[i].tier #
                apply_tier_and_justification(df_combined, tier_pcts[1], tier_pcts[2])[i].tier

-----------------------------------------------------------------------------
(* Properties of the pipeline *)

\* C20: running the pipeline again on the same population and configuration
\* produces identical outputs: at the end of every later run the files of
\* outputs/ are what the first run left, and they are the pure functions of
\* the data files.
C20_RerunGivesSameOutputs ==
    /\ (run >= 2 /\ pc \in {"pipe_done", "pipe_failed"}) => files = first_outputs
    /\ pc \in {"pipe_quant", "pipe_qual", "pipe_done", "pipe_failed"} =>
          files.sma_scored = sma_scored_table(df)
    /\ pc \in {"pipe_qual", "pipe_done"} =>
          files.qualitative_scored = qualitative_scored_table(qual_df)
    /\ pc = "pipe_done" =>
          files.combined_scores =
              combined_scores_table(sma_scored_table(df), qualitative_scored_table(qual_df))

C20_Witness ==
    /\ pc = "pipe_done"
    /\ run = 2
    /\ Len(files.combined_scores) = 2
    /\ files.combined_scores[1].quadrant # files.combined_scores[2].quadrant
    /\ first_outputs = files

-----------------------------------------------------------------------------
(* Properties of the tenure score *)

\* the digit groups of s from index i on: its maximal runs of digits
RECURSIVE DigitGroups(_, _)
DigitGroups(s, i) ==
    IF i > Len(s) THEN <<>>
    ELSE IF s[i] \in Digits
         THEN <<SubSeq(s, i, DigitRunEnd(s, i))>> \o DigitGroups(s, DigitRunEnd(s, i) + 1)
         ELSE DigitGroups(s, i + 1)

\* the mean of the digit groups of a text, 0 when it has none
MeanOfDigitGroups(s) ==
    LET groups == DigitGroups(s, 1)
    IN  IF groups = <<>> THEN RInt(0)
        ELSE RDiv(SeqSum([k \in DOMAIN groups |-> RInt(DigitsValue(groups[k]))]),
                  RInt(Len(groups)))

\* the numbers of s from index i on, read left to right: a digit group,
\* together with a point that follows it and the digits after that point
RECURSIVE Numbers(_, _)
Numbers(s, i) ==
    IF i > Len(s) THEN <<>>
    ELSE IF s[i] \notin Digits THEN Numbers(s, i + 1)
    ELSE LET e == DigitRunEnd(s, i)
             whole == RInt(DigitsValue(SubSeq(s, i, e)))
         IN  IF e < Len(s) /\ s[e + 1] = "."
             THEN LET f == DigitRunEnd(s, e + 2)
                  IN  <<RAdd(whole, Rat(DigitsValue(SubSeq(s, e + 2, f)),
                                        Pow10(f - e - 1)))>>
                          \o Numbers(s, f + 1)
             ELSE <<whole>> \o Numbers(s, e + 1)

\* the tenure score as a function of the parsed tenure: divided by the cap of
\* 20 years and clamped to [0,1]
ScoreOfTenure(t) ==
    IF RLe(RInt(20), t) THEN RInt(1)
    ELSE IF RLe(t, RInt(0)) THEN RInt(0)
    ELSE RDiv(t, RInt(20))

\* tenure texts the score of the parsed cell is compared with
TenureProbes ==
    {<<>>, <<"5">>, <<"<", "5">>, <<"1", "0", "+">>, <<"5", "-", "1", "0">>,
     <<"2", "0">>, <<"2", "5", "+">>, <<"2", ".", "5">>}

\* what the claim says of the score: within [0,1], exactly 1 from 20 years
\* on, 0 for a value that is not a str, and non-decreasing in the parsed tenure
TenureScoreProperties ==
    /\ tenure_norm = ScoreOfTenure(tenure_parsed)
    /\ RLe(RInt(0), tenure_norm) /\ RLe(tenure_norm, RInt(1))
    /\ RLe(RInt(20), tenure_parsed) => tenure_norm = RInt(1)
    /\ ~tenure_in.isstr => (tenure_parsed = RInt(0) /\ tenure_norm = RInt(0))
    /\ DigitGroups(tenure_in.chars, 1) = <<>> => tenure_parsed = RInt(0)
    /\ \A p \in TenureProbes :
          LET other == [isstr |-> TRUE, chars |-> p]
          IN  /\ RLe(parse_tenure(other), tenure_parsed)
                    => RLe(tenure_score(other), tenure_norm)
              /\ RLe(tenure_parsed, parse_tenure(other))
                    => RLe(tenure_norm, tenure_score(other))
    /\ tenure_in.chars = <<"5", "-", "1", "0">> => tenure_parsed = Rat(15, 2)
    /\ tenure_in.chars = <<"1", "0", "+">> => tenure_parsed = RInt(10)
    /\ tenure_in.chars = <<"<", "5">> => tenure_parsed = RInt(5)

\* C21 as stated: parse_tenure maps a text to the mean of all digit groups
\* found in it ('5-10' -> 7.5, '10+' -> 10, '<5' -> 5) and to 0 when there
\* are no digits or the value is not a str; the Manager Tenure Score is that
\* value divided by 20 and clamped to [0,1]: within [0,1], non-decreasing in
\* the parsed tenure, exactly 1 from 20 on.
C21_TenureIsMeanOfDigitGroups ==
    pc = "tenure_done" =>
        /\ tenure_in.isstr => tenure_parsed = MeanOfDigitGroups(tenure_in.chars)
        /\ TenureScoreProperties

\* C21 amended: the same, with the mean taken over the numbers found, where a
\* digit group followed by a point and further digits is one decimal number;
\* for a text without a point this is the mean of its digit groups.
C21_TenureIsMeanOfNumbers ==
    pc = "tenure_done" =>
        /\ tenure_in.isstr =>
              LET numbers == Numbers(tenure_in.chars, 1)
              IN  /\ tenure_parsed =
                        IF numbers = <<>> THEN RInt(0)
                        ELSE RDiv(SeqSum(numbers), RInt(Len(numbers)))
                  /\ (\A i \in DOMAIN tenure_in.chars : tenure_in.chars[i] # ".")
                        => tenure_parsed = MeanOfDigitGroups(tenure_in.chars)
        /\ TenureScoreProperties

C21_Witness ==
    /\ pc = "tenure_done"
    /\ tenure_in = [isstr |-> TRUE, chars |-> <<"5", "-", "1", "0">>]
    /\ tenure_parsed = Rat(15, 2)
    /\ tenure_norm = Rat(3, 8)

=============================================================================
